---- MODULE Spec2Model ----
(***************************************************************************)
(* Campaign call manager: admission / concurrency control, call lifecycle  *)
(* and retry scheduling, modelled from src/calls.                          *)
(*                                                                         *)
(* Shared state is the Redis cache (the in-flight counter and the          *)
(* per-number duplicate lock), the database tables CallLog and             *)
(* ConcurrencyControl, the Redis pending queue and the Celery task pool.   *)
(* Every Celery task and every request handler is one step, except         *)
(* InitiateCallView.post, whose admission check and whose tracking update  *)
(* are two steps: other requests and workers run between them.  Cache      *)
(* writes are not undone when the surrounding database transaction rolls   *)
(* back.  Time is abstract: next_retry_at is "none", "future" or "due",    *)
(* and the TTL of a duplicate lock elapses in a step of its own.  The      *)
(* one-hour TTL of the counter key, refreshed by every write, is not       *)
(* modelled.                                                               *)
(***************************************************************************)
EXTENDS Integers, Sequences, FiniteSets, TLC

\* ---------------------------------------------------------------- bounds
NumNumbers == 2          \* phone numbers 1..NumNumbers
MaxCalls == 3            \* call ids 1..MaxCalls (CallLog rows ever created)
MaxInflight == 2         \* InitiateCallView requests between check and start
MaxEvents == 3           \* steps of the environment: requests, provider
                         \* failures, duplicated callbacks, elapsed timeouts
                         \* and cutoffs, ticks outside every retry window
MaxCounter == MaxCalls + 1   \* cap on the cache counter (it can leak upwards)
MaxQueue == NumNumbers       \* cap on the length of the pending queue

\* ------------------------------------------------------ program constants
MAX_CONCURRENT_CALLS == 2     \* Config.MAX_CONCURRENT_CALLS (environment knob,
                              \* default 100; scaled)
MAX_RETRY_ATTEMPTS == 3       \* Config.MAX_RETRY_ATTEMPTS
DEFAULT_MAX_ATTEMPTS == 3     \* CallLog.max_attempts default
TASK_MAX_RETRIES == 3         \* max_retries of process_call_initiation

Numbers == 1..NumNumbers
CallIds == 1..MaxCalls
NoCall == 0
NoNumber == 0

\* a list of valid statuses that lets an unknown status through; used to show
\* that the check of the status is what rejects it
valid_statuses_unchecked == {"PICKED", "DISCONNECTED", "RNR", "FAILED", "INVALID_STATUS"}

CallbackStatuses == {"PICKED", "DISCONNECTED", "RNR", "FAILED"}
\* the one campaign of the model, and an id no campaign has
TheCampaign == 1
CampaignIds == {1, 2}
NoRejection == [by |-> "none", code |-> "none"]

\* no retry schedule loaded, no retry ticker has run
NoConfig == [global_rules |-> <<>>, campaign_rules |-> <<>>,
             defaults |-> [retry_interval_minutes |-> 1]]
NoSlot == [start_time |-> 0, end_time |-> 0, max_attempts |-> 0,
           retry_interval_minutes |-> 0]
\* a null total_call_time or last_attempt_at; also a call_duration that is
\* absent or 0, which `if call_duration:` does not tell apart
NoTime == 0
NoDelivery == [call |-> 0, status |-> "-", retries |-> 0, response |-> "none"]
NoAnswer == [by |-> "none", campaign_id |-> 0, at |-> 0, rules |-> {},
             in_window |-> FALSE, next_retry |-> 0]
Terminal == {"COMPLETED", "FAILED"}
\* max_attempts a time slot of the retry schedule may declare
SlotMaxAttempts == {2, 3}

\* retry ticks that may run at the same time (the Celery beat task and the
\* legacy RetryScheduler thread, or two runs of the beat task)
NumTicks == 2
Ticks == 1 .. NumTicks

VARIABLES
    counter,             \* cache[REDIS_CONCURRENCY_KEY]
    lock,                \* cache[call_lock:<number>] -> call_id, NoCall if unset
    ConcurrencyControl,  \* table: call_id -> phone_number, NoNumber if no row
    CallLog,             \* table: call_id -> row, status "NONE" if no row
    DLQEntry,            \* table: the rows written for failed initiate tasks
    tasks,               \* Celery messages waiting for a worker
    queue,               \* Redis list call_queue:<campaign>
    checked,             \* number -> requests that passed can_initiate_call
    provider,            \* call_id -> "idle" | "ringing" | last status reported
    events,              \* events of the environment so far
    Campaign,            \* table: campaign_id -> is_active, for the one campaign
    rejected,            \* the last request or task run refused at its entry
    now,                 \* timezone.now() of the retry ticker, in seconds
    retry_config,        \* the loaded retry schedule (load_retry_config)
    retry_answer,        \* what the last run of a retry ticker computed
    call_queue,          \* Redis lists call_queue:<campaign>, with whole entries
    popped,              \* campaign -> entries pop_from_queue returned, in order
    delivery,            \* the last run of process_external_callback
    total_call_time,     \* CallLog column: call_id -> seconds, NoTime if null
    last_attempt_at,     \* CallLog column: call_id -> instant, NoTime if null
    selected             \* retry tick -> the record it holds in memory, if any

\* the state of the call path
call_state == <<counter, lock, ConcurrencyControl, CallLog, DLQEntry, tasks, queue,
                checked, provider>>
call_vars == <<call_state, events>>
\* the state only the entry checks and the units below read or write
schedule_vars == <<now, retry_config, retry_answer>>
queue_vars == <<call_queue, popped>>
record_vars == <<total_call_time, last_attempt_at>>
tick_vars == <<selected>>
aux_vars == <<Campaign, rejected, schedule_vars, queue_vars, delivery, record_vars,
              tick_vars>>
vars == <<call_vars, aux_vars>>

NoRow == [status |-> "NONE", phone_number |-> NoNumber, attempt_count |-> 0,
          max_attempts |-> 0, next_retry_at |-> "none", error_message |-> "none"]

NewCallLog(n, maxAtt) ==
    [status |-> "INITIATED", phone_number |-> n, attempt_count |-> 1,
     max_attempts |-> maxAtt, next_retry_at |-> "none", error_message |-> "none"]

Exists(c) == CallLog[c].status # "NONE"
\* generate_call_id: a fresh uuid, here the least unused id
generate_call_id(log) ==
    CHOOSE c \in CallIds : log[c].status = "NONE"
                           /\ \A d \in CallIds : d < c => log[d].status # "NONE"
Min(a, b) == IF a < b THEN a ELSE b

FreeIds(log) == Cardinality({c \in CallIds : log[c].status = "NONE"})

\* ------------------------------------------------- ConcurrencyManager
Tracking == [counter |-> counter, lock |-> lock, cc |-> ConcurrencyControl]

\* can_initiate_call with the two checks in the other order (duplicate lock
\* first); used to show that the order matters
can_initiate_call_lock_first(cnt, lk, n) ==
    IF lk[n] # 0 THEN "DUPLICATE_CALL_IN_PROGRESS"
    ELSE IF cnt >= MAX_CONCURRENT_CALLS THEN "CAPACITY_LIMIT_REACHED"
    ELSE "OK"

\* can_initiate_call without the duplicate check; used to show that the lock
\* is what rejects the request
can_initiate_call_capacity_only(cnt, lk, n) ==
    IF cnt >= MAX_CONCURRENT_CALLS THEN "CAPACITY_LIMIT_REACHED" ELSE "OK"

\* an admission check that never refuses; used to show that a refused
\* re-admission leaves the call alone
can_initiate_call_always(cnt, lk, n) == "OK"

can_initiate_call(cnt, lk, n) ==
    IF cnt >= MAX_CONCURRENT_CALLS THEN "CAPACITY_LIMIT_REACHED"
    ELSE IF lk[n] # NoCall THEN "DUPLICATE_CALL_IN_PROGRESS"
    ELSE "OK"

\* get_available_slots that ignores the counter; used to show that the split
\* of a bulk request depends on the free slots
get_available_slots_all_free(cnt) == MAX_CONCURRENT_CALLS

\* get_available_slots that never finds a free slot; used to show that the
\* queue drains only through the runs that pop it
get_available_slots_none(cnt) == 0

get_available_slots(cnt) ==
    IF MAX_CONCURRENT_CALLS - cnt > 0 THEN MAX_CONCURRENT_CALLS - cnt ELSE 0

\* The cache writes come first and are not transactional; the insert fails
\* on the unique call_id, its savepoint is rolled back and False is returned.
start_call(t, c, n) ==
    LET cnt == t.counter + 1
        lk  == [t.lock EXCEPT ![n] = c]
    IN  IF t.cc[c] # NoNumber
        THEN [ok |-> FALSE, counter |-> cnt, lock |-> lk, cc |-> t.cc]
        ELSE [ok |-> TRUE, counter |-> cnt, lock |-> lk,
              cc |-> [t.cc EXCEPT ![c] = n]]

\* an end_call that releases nothing; used to show that the release is part
\* of what the callback handlers are checked for
end_call_keeps(t, c, n) ==
    [ok |-> TRUE, counter |-> t.counter, lock |-> t.lock, cc |-> t.cc]

end_call(t, c, n) ==
    [ok |-> TRUE,
     counter |-> IF t.counter > 0 THEN t.counter - 1 ELSE t.counter,
     lock |-> [t.lock EXCEPT ![n] = NoCall],
     cc |-> [t.cc EXCEPT ![c] = NoNumber]]

\* ------------------------------------------------------------- tasks
InitiateTask(c, r) == [type |-> "initiate", call |-> c, status |-> "-", retries |-> r]
CallbackTask(c, s) == [type |-> "callback", call |-> c, status |-> s, retries |-> 0]
ExternalTask(c, s, r) == [type |-> "external_callback", call |-> c, status |-> s,
                          retries |-> r]
QueueTask == [type |-> "queue", call |-> NoCall, status |-> "-", retries |-> 0]

\* a task that is dropped by its first failure
Retry_dropped(pool, t) == pool \ {t}

\* self.retry: re-send the message with retries + 1 unless max_retries is
\* exceeded, then the task is given up
Retry(pool, t) ==
    IF t.retries < TASK_MAX_RETRIES
    THEN (pool \ {t}) \cup {[t EXCEPT !.retries = t.retries + 1]}
    ELSE pool \ {t}

\* ------------------------------------------------------------- DLQEntry
\* the fields of the DLQEntry model
DLQEntryFields ==
    {"id", "topic", "payload", "error", "retry_count", "max_retries",
     "created_at", "last_retry_at", "processed", "processed_at"}

\* DLQEntry.objects.create(**kwargs) inside try/except: a keyword that is not
\* a field of the model raises TypeError, which is logged, and no row is
\* written
DLQEntry_create(rows, kwargs) ==
    IF DOMAIN kwargs \subseteq DLQEntryFields THEN rows \cup {kwargs} ELSE rows

\* a tick that holds no record
NoSelection == [call |-> NoCall, row |-> NoRow, admitted |-> FALSE]

Init ==
    /\ counter = 0
    /\ lock = [n \in Numbers |-> NoCall]
    /\ ConcurrencyControl = [c \in CallIds |-> NoNumber]
    /\ CallLog = [c \in CallIds |-> NoRow]
    /\ DLQEntry = {}
    /\ tasks = {}
    /\ queue = <<>>
    /\ checked = [n \in Numbers |-> 0]
    /\ provider = [c \in CallIds |-> "idle"]
    /\ events = 0
    /\ Campaign = [c \in {TheCampaign} |-> TRUE]
    /\ rejected = NoRejection
    /\ now = 0
    /\ retry_config = NoConfig
    /\ retry_answer = NoAnswer
    /\ call_queue = [c \in CampaignIds |-> <<>>]
    /\ popped = [c \in CampaignIds |-> <<>>]
    /\ delivery = NoDelivery
    /\ total_call_time = [c \in CallIds |-> NoTime]
    /\ last_attempt_at = [c \in CallIds |-> NoTime]
    /\ selected = [k \in Ticks |-> NoSelection]

RECURSIVE SumChecked(_, _)
SumChecked(f, S) ==
    IF S = {} THEN 0
    ELSE LET n == CHOOSE x \in S : TRUE IN f[n] + SumChecked(f, S \ {n})
InFlight == SumChecked(checked, Numbers)

\* ----------------------------------------------------- InitiateCallView
\* post, up to the admission decision.  CAPACITY_LIMIT_REACHED: the call is
\* recorded and its initiate task queued without tracking.  DUPLICATE: 429.
\* OK: the request goes on to InitiateCallView_start.
InitiateCallView_check(n) ==
    LET v == can_initiate_call(counter, lock, n)
    IN  /\ FreeIds(CallLog) > 0
        /\ \/ /\ v = "CAPACITY_LIMIT_REACHED"
              /\ LET c == generate_call_id(CallLog)
                 IN  /\ CallLog' = [CallLog EXCEPT ![c] = NewCallLog(n, DEFAULT_MAX_ATTEMPTS)]
                     /\ tasks' = tasks \cup {InitiateTask(c, 0)}
              /\ UNCHANGED checked
           \/ /\ v = "OK"
              /\ InFlight < MaxInflight
              /\ checked' = [checked EXCEPT ![n] = @ + 1]
              /\ UNCHANGED <<CallLog, tasks>>
        /\ UNCHANGED <<DLQEntry, counter, lock, ConcurrencyControl, queue, provider>>

\* post, after the admission decision: create the CallLog, start tracking,
\* queue the initiate task.
InitiateCallView_start(n) ==
    /\ checked[n] > 0
    /\ FreeIds(CallLog) > 0
    /\ counter < MaxCounter
    /\ LET c == generate_call_id(CallLog)
           t == start_call(Tracking, c, n)
       IN  /\ CallLog' = [CallLog EXCEPT ![c] = NewCallLog(n, DEFAULT_MAX_ATTEMPTS)]
           /\ counter' = t.counter
           /\ lock' = t.lock
           /\ ConcurrencyControl' = t.cc
           /\ tasks' = IF t.ok THEN tasks \cup {InitiateTask(c, 0)} ELSE tasks
    /\ checked' = [checked EXCEPT ![n] = @ - 1]
    /\ UNCHANGED <<DLQEntry, queue, provider>>

\* -------------------------------------------- tasks.process_call_initiation
\* One worker run under the row lock of the CallLog.  A call without a
\* ConcurrencyControl row is admitted first (can_initiate_call, start_call).
\* Provider success commits status INITIATED.  Provider failure reaches
\* ConcurrencyManager.end_call(call_id), which raises (phone_number is
\* missing): the transaction rolls back the CallLog and ConcurrencyControl
\* writes, the cache writes of start_call stay, and the task is retried.
\* Every failing run passes through the except handler, which tries to write
\* a DLQEntry before self.retry.
process_call_initiation(t, provider_ok) ==
    LET c == t.call
        n == CallLog[c].phone_number
        has_concurrency_tracking == ConcurrencyControl[c] # NoNumber
        v == can_initiate_call(counter, lock, n)
        tr == IF has_concurrency_tracking THEN Tracking ELSE start_call(Tracking, c, n)
        dlq_kwargs == [topic |-> "call_initiation", payload |-> c,
                       error_message |-> "error", retry_count |-> t.retries]
    IN  /\ t \in tasks
        /\ t.type = "initiate"
        /\ Exists(c)
        /\ IF ~has_concurrency_tracking /\ v # "OK"
           THEN \* raise self.retry(countdown=30); the provider is not called
                /\ provider_ok
                /\ tasks' = Retry(tasks, t)
                /\ DLQEntry' = DLQEntry_create(DLQEntry, dlq_kwargs)
                /\ UNCHANGED <<counter, lock, ConcurrencyControl, CallLog, provider>>
           ELSE /\ has_concurrency_tracking \/ counter < MaxCounter
                /\ counter' = tr.counter
                /\ lock' = tr.lock
                /\ IF provider_ok
                   THEN /\ CallLog' = [CallLog EXCEPT ![c].status = "INITIATED"]
                        /\ ConcurrencyControl' = tr.cc
                        /\ provider' = [provider EXCEPT ![c] = "ringing"]
                        /\ tasks' = tasks \ {t}
                        /\ UNCHANGED DLQEntry
                   ELSE /\ tasks' = Retry(tasks, t)
                        /\ DLQEntry' = DLQEntry_create(DLQEntry, dlq_kwargs)
                        /\ UNCHANGED <<CallLog, ConcurrencyControl, provider>>
        /\ UNCHANGED <<queue, checked>>

\* ------------------------------------------------------- CallBackView.put
\* The view writes the callback status into the CallLog and queues
\* process_callback_event.  provider[c] is "ringing" while the provider owes
\* the callback of a dial, and afterwards the status it reported.
CallBackView_put(c, status_val) ==
    /\ Exists(c)
    /\ CallLog' = [CallLog EXCEPT ![c].status = status_val]
    /\ tasks' = tasks \cup {CallbackTask(c, status_val)}
    /\ UNCHANGED <<DLQEntry, counter, lock, ConcurrencyControl, queue, checked>>

\* the provider reports the outcome of a dialled call
provider_callback(c, status_val) ==
    /\ provider[c] = "ringing"
    /\ provider' = [provider EXCEPT ![c] = status_val]
    /\ CallBackView_put(c, status_val)

\* the provider delivers its last callback for a call once more
provider_replay(c) ==
    /\ provider[c] \in CallbackStatuses
    /\ UNCHANGED provider
    /\ CallBackView_put(c, provider[c])

\* --------------------------------------------- tasks.process_callback_event
\* a retry condition that is always met; used to show that the comparison
\* with max_attempts is what ends the retries
attempts_left_always(row) == TRUE

\* call_log.attempt_count < call_log.max_attempts
attempts_left(row) == row.attempt_count < row.max_attempts

process_callback_event(t) ==
    LET c == t.call
        status == t.status
        row == CallLog[c]
        e == end_call(Tracking, c, row.phone_number)
    IN  /\ t \in tasks
        /\ t.type = "callback"
        /\ Exists(c)
        /\ \/ /\ status \in {"DISCONNECTED", "RNR"}
              /\ IF attempts_left(row)
                 THEN CallLog' = [CallLog EXCEPT ![c].status = status,
                                                 ![c].next_retry_at = "future"]
                 ELSE CallLog' = [CallLog EXCEPT ![c].status = "FAILED",
                                                 ![c].error_message = "max_retries"]
              /\ counter' = e.counter
              /\ lock' = e.lock
              /\ ConcurrencyControl' = e.cc
              /\ tasks' = tasks \ {t}
           \/ /\ status = "PICKED"
              /\ CallLog' = [CallLog EXCEPT ![c].status = "COMPLETED"]
              /\ counter' = e.counter
              /\ lock' = e.lock
              /\ ConcurrencyControl' = e.cc
              /\ tasks' = (tasks \ {t}) \cup {QueueTask}
           \/ /\ status \notin {"DISCONNECTED", "RNR", "PICKED"}
              /\ CallLog' = [CallLog EXCEPT ![c].status = status]
              /\ tasks' = tasks \ {t}
              /\ UNCHANGED <<counter, lock, ConcurrencyControl>>
        /\ UNCHANGED <<DLQEntry, queue, checked, provider>>

\* ------------------------------------------------- admission of a batch
\* The loop body shared by BulkInitiateCallView.post and process_queue_batch:
\* skip a number whose duplicate lock is set, else start tracking under a
\* fresh call id, create the CallLog and queue its initiate task.  A number
\* whose start_call fails is counted as failed (and re-queued by the queue
\* processor).
LoopState ==
    [counter |-> counter, lock |-> lock, cc |-> ConcurrencyControl,
     log |-> CallLog, tasks |-> tasks, processed |-> 0, failed |-> 0,
     requeue |-> <<>>]

\* an admission loop that does not look at the duplicate lock; used to show
\* that a popped entry whose number is locked is dropped
RECURSIVE admit_unlocked(_, _)
admit_unlocked(nums, st) ==
    IF nums = <<>> THEN st
    ELSE LET n == Head(nums)
             c == generate_call_id(st.log)
             t == start_call([counter |-> st.counter, lock |-> st.lock, cc |-> st.cc], c, n)
         IN  admit_unlocked(Tail(nums),
                        [st EXCEPT !.counter = t.counter, !.lock = t.lock, !.cc = t.cc,
                                   !.log = [@ EXCEPT ![c] = NewCallLog(n, MAX_RETRY_ATTEMPTS)],
                                   !.tasks = @ \cup {InitiateTask(c, 0)},
                                   !.processed = @ + 1])

RECURSIVE admit(_, _)
admit(nums, st) ==
    IF nums = <<>> THEN st
    ELSE LET n == Head(nums)
             c == generate_call_id(st.log)
             t == start_call([counter |-> st.counter, lock |-> st.lock, cc |-> st.cc], c, n)
         IN  IF st.lock[n] # NoCall
             THEN admit(Tail(nums), [st EXCEPT !.failed = @ + 1])
             ELSE IF ~t.ok
             THEN admit(Tail(nums), [st EXCEPT !.counter = t.counter, !.lock = t.lock,
                                               !.failed = @ + 1,
                                               !.requeue = Append(@, n)])
             ELSE admit(Tail(nums),
                        [st EXCEPT !.counter = t.counter, !.lock = t.lock, !.cc = t.cc,
                                   !.log = [@ EXCEPT ![c] = NewCallLog(n, MAX_RETRY_ATTEMPTS)],
                                   !.tasks = @ \cup {InitiateTask(c, 0)},
                                   !.processed = @ + 1])

\* list(set(phone_numbers)): the distinct numbers of the request in some order
NumberLists ==
    {q \in UNION {[1..k -> Numbers] : k \in 1..NumNumbers} :
        \A i, j \in DOMAIN q : i # j => q[i] # q[j]}

\* ------------------------------------------------ BulkInitiateCallView.post
BulkInitiateCallView_post(phone_numbers) ==
    LET available_slots == get_available_slots(counter)
        immediate_count == Min(available_slots, Len(phone_numbers))
        immediate_numbers == SubSeq(phone_numbers, 1, immediate_count)
        queued_numbers == SubSeq(phone_numbers, immediate_count + 1, Len(phone_numbers))
        st == admit(immediate_numbers, LoopState)
    IN  /\ FreeIds(CallLog) >= immediate_count
        /\ counter + immediate_count <= MaxCounter
        /\ Len(queue) + Len(queued_numbers) <= MaxQueue
        /\ counter' = st.counter
        /\ lock' = st.lock
        /\ ConcurrencyControl' = st.cc
        /\ CallLog' = st.log
        /\ queue' = queue \o queued_numbers
        /\ tasks' = IF queued_numbers # <<>> THEN st.tasks \cup {QueueTask} ELSE st.tasks
        /\ UNCHANGED <<DLQEntry, checked, provider>>

\* ------------------------------------------------ tasks.process_queue_batch
\* a run that re-arms itself whenever entries remain; used to show that the
\* cascade ends because a run that admitted nothing does not re-arm
trigger_next_batch_while_queued(remaining_queue, processed_count) == remaining_queue > 0

\* if remaining_queue > 0 and processed_count > 0: process_queue_batch.apply_async
trigger_next_batch(remaining_queue, processed_count) ==
    remaining_queue > 0 /\ processed_count > 0

process_queue_batch(t) ==
    LET available_slots == get_available_slots(counter)
        queue_size == Len(queue)
        batch_size == Min(available_slots, queue_size)
        queue_entries == SubSeq(queue, 1, batch_size)
        st == admit(queue_entries, LoopState)
        remaining == SubSeq(queue, batch_size + 1, queue_size) \o st.requeue
    IN  /\ t \in tasks
        /\ t.type = "queue"
        /\ IF available_slots = 0 \/ queue_size = 0
           THEN /\ tasks' = tasks \ {t}
                /\ UNCHANGED <<counter, lock, ConcurrencyControl, CallLog, queue>>
           ELSE /\ FreeIds(CallLog) >= batch_size
                /\ counter' = st.counter
                /\ lock' = st.lock
                /\ ConcurrencyControl' = st.cc
                /\ CallLog' = st.log
                /\ queue' = remaining
                /\ tasks' = (st.tasks \ {t}) \cup
                            (IF trigger_next_batch(Len(remaining), st.processed)
                             THEN {QueueTask} ELSE {})
        /\ UNCHANGED <<DLQEntry, checked, provider>>

\* ---------------------------------------- periodic_tasks.process_call_queues
process_call_queues ==
    /\ Len(queue) > 0
    /\ QueueTask \notin tasks
    /\ tasks' = tasks \cup {QueueTask}
    /\ UNCHANGED <<DLQEntry, counter, lock, ConcurrencyControl, CallLog, queue,
                   checked, provider>>

\* ---------------------------------------- periodic_tasks.process_retry_calls
\* is_in_retry_window outside every window: (False, None)
NoRule == [max_attempts |-> 0]

\* The loop body for one eligible call.  in_window is what is_in_retry_window
\* answers at the time of the tick, current_rule the slot it returns.  The
\* result of start_call is not looked at.
process_retry_calls(c, in_window, current_rule) ==
    LET row == CallLog[c]
        t == start_call(Tracking, c, row.phone_number)
    IN  /\ row.status \in {"DISCONNECTED", "RNR"}
        /\ row.next_retry_at = "due"
        /\ row.attempt_count < MAX_RETRY_ATTEMPTS
        /\ IF in_window
           THEN /\ can_initiate_call(counter, lock, row.phone_number) = "OK"
                /\ counter < MaxCounter
                /\ CallLog' = [CallLog EXCEPT ![c].attempt_count = @ + 1,
                                              ![c].status = "RETRYING",
                                              ![c].next_retry_at = "future",
                                              ![c].max_attempts = current_rule.max_attempts]
                /\ counter' = t.counter
                /\ lock' = t.lock
                /\ ConcurrencyControl' = t.cc
                /\ tasks' = tasks \cup {InitiateTask(c, 0)}
           ELSE /\ CallLog' = [CallLog EXCEPT ![c].next_retry_at = "future"]
                /\ UNCHANGED <<counter, lock, ConcurrencyControl, tasks>>
        /\ UNCHANGED <<DLQEntry, queue, checked, provider>>

\* -------------------------------- scheduler.RetryScheduler.cleanup_expired_calls
cleanup_expired_calls(c) ==
    LET row == CallLog[c]
        e == end_call(Tracking, c, row.phone_number)
    IN  /\ row.status \in {"DISCONNECTED", "RNR", "RETRYING"}
        /\ row.attempt_count >= MAX_RETRY_ATTEMPTS
        /\ CallLog' = [CallLog EXCEPT ![c].status = "FAILED",
                                      ![c].error_message = "max_retries"]
        /\ counter' = e.counter
        /\ lock' = e.lock
        /\ ConcurrencyControl' = e.cc
        /\ UNCHANGED <<DLQEntry, tasks, queue, checked, provider>>

\* ------------------------------------ ConcurrencyManager.cleanup_stale_calls
\* The loop body for one ConcurrencyControl row older than the cutoff.
cleanup_stale_calls(c) ==
    LET e == end_call(Tracking, c, ConcurrencyControl[c])
    IN  /\ ConcurrencyControl[c] # NoNumber
        /\ counter' = e.counter
        /\ lock' = e.lock
        /\ ConcurrencyControl' = e.cc
        /\ UNCHANGED <<DLQEntry, CallLog, tasks, queue, checked, provider>>

\* ------------------------------------------------------------- time
\* next_retry_at <= now becomes true
retry_time_reached(c) ==
    /\ CallLog[c].next_retry_at = "future"
    /\ CallLog' = [CallLog EXCEPT ![c].next_retry_at = "due"]
    /\ UNCHANGED <<DLQEntry, counter, lock, ConcurrencyControl, tasks, queue,
                   checked, provider>>

\* the timeout of cache.set(duplicate_key, ...) elapses
lock_ttl_expires(n) ==
    /\ lock[n] # NoCall
    /\ lock' = [lock EXCEPT ![n] = NoCall]
    /\ UNCHANGED <<DLQEntry, counter, ConcurrencyControl, CallLog, tasks, queue,
                   checked, provider>>

\* The environment takes at most MaxEvents steps: requests, provider failures,
\* duplicated callbacks, elapsed timeouts and ticks outside every retry window.
Environment == events < MaxEvents /\ events' = events + 1 /\ UNCHANGED aux_vars
System == UNCHANGED events /\ UNCHANGED aux_vars

Next ==
    \/ \E n \in Numbers : InitiateCallView_check(n) /\ Environment
    \/ \E n \in Numbers : InitiateCallView_start(n) /\ System
    \/ \E q \in NumberLists : BulkInitiateCallView_post(q) /\ Environment
    \/ \E t \in tasks : process_call_initiation(t, TRUE) /\ System
    \/ \E t \in tasks : process_call_initiation(t, FALSE) /\ Environment
    \/ \E c \in CallIds, s \in CallbackStatuses : provider_callback(c, s) /\ System
    \/ \E c \in CallIds : provider_replay(c) /\ Environment
    \/ \E t \in tasks : process_callback_event(t) /\ System
    \/ \E t \in tasks : process_queue_batch(t) /\ System
    \/ process_call_queues /\ System
    \/ \E c \in CallIds, r \in [max_attempts : SlotMaxAttempts] :
          process_retry_calls(c, TRUE, r) /\ System
    \/ \E c \in CallIds : process_retry_calls(c, FALSE, NoRule) /\ Environment
    \/ \E c \in CallIds : cleanup_expired_calls(c) /\ System
    \/ \E c \in CallIds : cleanup_stale_calls(c) /\ Environment
    \/ \E c \in CallIds : retry_time_reached(c) /\ Environment
    \/ \E n \in Numbers : lock_ttl_expires(n) /\ Environment

Spec == Init /\ [][Next]_vars

\* ------------------------------------------------- fair scheduling
\* Workers run every queued task, the beat runs every tick, the provider
\* reports every dialled call and time passes.  Requests, provider failures,
\* duplicated callbacks, ticks outside every window and stale sweeps are
\* owed by nobody.
Fairness ==
    /\ WF_vars(\E n \in Numbers : InitiateCallView_start(n) /\ System)
    /\ WF_vars(\E t \in tasks : process_call_initiation(t, TRUE) /\ System)
    /\ WF_vars(\E c \in CallIds, s \in CallbackStatuses : provider_callback(c, s) /\ System)
    /\ WF_vars(\E t \in tasks : process_callback_event(t) /\ System)
    /\ WF_vars(\E t \in tasks : process_queue_batch(t) /\ System)
    /\ WF_vars(process_call_queues /\ System)
    /\ WF_vars(\E c \in CallIds, r \in [max_attempts : SlotMaxAttempts] :
                  process_retry_calls(c, TRUE, r) /\ System)
    /\ WF_vars(\E c \in CallIds : cleanup_expired_calls(c) /\ System)
    /\ WF_vars(\E c \in CallIds : retry_time_reached(c) /\ Environment)
    /\ WF_vars(\E n \in Numbers : lock_ttl_expires(n) /\ Environment)

FairSpec == Spec /\ Fairness

\* ============================================================ entry checks
\* The views and the queue processor with the checks they make before the
\* admission logic above: the status alphabet and the CallLog lookup of
\* CallBackView.put, and the lookup of the active campaign.  A refused
\* request changes nothing but `rejected`, which records who refused and
\* with which answer.

\* a lookup that takes every campaign id for an active campaign; used to show
\* that the lookup is what rejects the request
Campaign_get_any(tbl, campaign_id) == TRUE

\* Campaign.objects.get(id=campaign_id, is_active=True) finds a row
Campaign_get(tbl, campaign_id) == campaign_id \in DOMAIN tbl /\ tbl[campaign_id]

Rejection(by, code) == [by |-> by, code |-> code]
Reject(by, code) ==
    /\ rejected' = Rejection(by, code)
    /\ UNCHANGED <<call_state, Campaign, schedule_vars, queue_vars, delivery, record_vars, tick_vars>>

\* a request or a task run that costs one event of the environment
Request == events < MaxEvents /\ events' = events + 1

\* InitiateCallView.post up to the admission decision
InitiateCallView_post(n, campaign_id) ==
    IF Campaign_get(Campaign, campaign_id)
    THEN InitiateCallView_check(n) /\ UNCHANGED aux_vars
    ELSE Reject("initiate-call", "404")

\* BulkInitiateCallView.post
BulkInitiateCallView_request(phone_numbers, campaign_id) ==
    IF Campaign_get(Campaign, campaign_id)
    THEN BulkInitiateCallView_post(phone_numbers) /\ UNCHANGED aux_vars
    ELSE Reject("bulk-initiate-calls", "404")

\* CallBackView.put with any status and any call id
CallBackView_request(c, status_val) ==
    IF status_val \notin CallbackStatuses THEN Reject("callback", "400")
    ELSE IF ~Exists(c) THEN Reject("callback", "404")
    ELSE CallBackView_put(c, status_val) /\ UNCHANGED <<provider, aux_vars>>

\* process_queue_batch: the campaign is looked up before slots and queue
process_queue_batch_run(t) ==
    IF Campaign_get(Campaign, TheCampaign)
    THEN process_queue_batch(t) /\ UNCHANGED aux_vars
    ELSE /\ t \in tasks
         /\ t.type = "queue"
         /\ tasks' = tasks \ {t}
         /\ rejected' = Rejection("process_queue_batch", "Campaign not found")
         /\ UNCHANGED <<counter, lock, ConcurrencyControl, CallLog, DLQEntry, queue,
                        checked, provider, Campaign, schedule_vars, queue_vars, delivery, record_vars, tick_vars>>

\* the campaign is switched off (is_active = False)
Campaign_deactivated ==
    /\ Campaign[TheCampaign]
    /\ Campaign' = [Campaign EXCEPT ![TheCampaign] = FALSE]
    /\ UNCHANGED <<call_state, rejected, schedule_vars, queue_vars, delivery, record_vars, tick_vars>>

AnyStatus == CallbackStatuses \cup {"INVALID_STATUS"}

ApiNext ==
    \/ \E n \in Numbers, cid \in CampaignIds : InitiateCallView_post(n, cid) /\ Request
    \/ \E n \in Numbers : InitiateCallView_start(n) /\ System
    \/ \E q \in NumberLists, cid \in CampaignIds :
          BulkInitiateCallView_request(q, cid) /\ Request
    \/ \E t \in tasks : process_call_initiation(t, TRUE) /\ System
    \/ \E c \in CallIds, s \in AnyStatus : CallBackView_request(c, s) /\ Request
    \/ \E t \in tasks : process_callback_event(t) /\ System
    \/ \E t \in tasks : process_queue_batch_run(t) /\ UNCHANGED events
    \/ Campaign_deactivated /\ Request

ApiSpec == Init /\ [][ApiNext]_vars

\* ========================================================== retry schedule
\* The retry tickers' view of time.  An instant is a number of seconds since a
\* Monday 00:00; a clock time of the configuration ('%H:%M') is a minute of
\* the day.  The day and the minute are scaled down, the week is not.
DayMinutes == 3          \* minutes in a day
MinuteSeconds == 2       \* seconds in a minute
MaxInterval == 2         \* longest retry_interval_minutes of a configuration
MaxDays == 2             \* days of the week a ticker is run on
WeekDays == 7            \* strftime('%A') has seven values
LookAheadDays == 7       \* scheduler.py: for days_ahead in range(7)

DaySeconds == DayMinutes * MinuteSeconds
\* the instants a ticker is run at: those of the first MaxDays days
Instants == 0 .. (MaxDays * DaySeconds - 1)

\* now.strftime('%A').lower(), as a number, Monday = 0
weekday(t) == (t \div DaySeconds) % WeekDays
\* now.time(): the second of the day
time_of(t) == t % DaySeconds
\* now.strftime('%H:%M'): the minute of the day, seconds dropped
strftime_HM(t) == time_of(t) \div MinuteSeconds
\* datetime.strptime(s, '%H:%M').time(): second 0 of that minute
strptime_HM(m) == m * MinuteSeconds
\* a timedelta that adds nothing
timedelta_zero(m) == 0
\* timedelta(minutes=m), timedelta(days=d)
timedelta_minutes(m) == m * MinuteSeconds
timedelta_days(d) == d * DaySeconds

Range(seq) == {seq[i] : i \in DOMAIN seq}

\* the configurations: at most one global rule and at most one rule for the
\* campaign, each rule with one day and one time slot
TimeSlots ==
    {s \in [start_time : 0 .. DayMinutes - 1, end_time : 0 .. DayMinutes - 1,
            max_attempts : {DEFAULT_MAX_ATTEMPTS},
            retry_interval_minutes : 1 .. MaxInterval] : s.start_time <= s.end_time}
RetryRules == {[days |-> <<d>>, time_slots |-> <<s>>] :
                   d \in 0 .. WeekDays - 1, s \in TimeSlots}
CampaignRetryRules ==
    {r \in RetryRules : /\ r.days = <<1>>
                        /\ r.time_slots[1].start_time = 0
                        /\ r.time_slots[1].end_time > 0
                        /\ r.time_slots[1].retry_interval_minutes = 1}
RetryConfigs ==
    [global_rules : {<<>>} \cup {<<r>> : r \in RetryRules},
     campaign_rules : {<<>>, <<[campaign_id |-> TheCampaign, rules |-> <<>>]>>}
                      \cup {<<[campaign_id |-> TheCampaign, rules |-> <<r>>]>> :
                                r \in CampaignRetryRules},
     defaults : [retry_interval_minutes : 1 .. MaxInterval]]

\* the first pair of a set of <<rule index, slot index>> pairs in loop order
FirstPair(pairs) ==
    CHOOSE p \in pairs : \A q \in pairs :
        p[1] < q[1] \/ (p[1] = q[1] /\ p[2] <= q[2])

\* for rule in retry_rules: for slot in time_slots: the pairs the loops visit
SlotsInOrder(retry_rules) ==
    UNION {{<<i, j>> : j \in DOMAIN retry_rules[i].time_slots} : i \in DOMAIN retry_rules}

\* --------------------------- celery_tasks.get_retry_rules_for_campaign
get_retry_rules_for_campaign(campaign_id, config) ==
    LET hits == {i \in DOMAIN config.campaign_rules :
                     config.campaign_rules[i].campaign_id = campaign_id}
    IN  IF hits # {}
        THEN config.campaign_rules[CHOOSE i \in hits : \A j \in hits : i <= j].rules
        ELSE config.global_rules

\* ------------------- is_in_retry_window of periodic_tasks and celery_tasks
is_in_retry_window(t, retry_rules) ==
    LET hits == {p \in SlotsInOrder(retry_rules) :
                   /\ weekday(t) \in Range(retry_rules[p[1]].days)
                   /\ LET slot == retry_rules[p[1]].time_slots[p[2]]
                      IN  /\ strptime_HM(slot.start_time) <= time_of(t)
                          /\ time_of(t) <= strptime_HM(slot.end_time)}
    IN  IF hits # {}
        THEN LET p == FirstPair(hits)
             IN  [in_window |-> TRUE, rule |-> retry_rules[p[1]].time_slots[p[2]]]
        ELSE [in_window |-> FALSE, rule |-> NoSlot]

\* ------------ calculate_next_retry_time of periodic_tasks and celery_tasks
calculate_next_retry_time(t, retry_rules, config) ==
    LET hits == {p \in SlotsInOrder(retry_rules) :
                   /\ weekday(t) \in Range(retry_rules[p[1]].days)
                   /\ LET slot == retry_rules[p[1]].time_slots[p[2]]
                          next_retry == t + timedelta_minutes(slot.retry_interval_minutes)
                      IN  time_of(next_retry) <= strptime_HM(slot.end_time)}
    IN  IF hits # {}
        THEN LET slot == retry_rules[FirstPair(hits)[1]].time_slots[FirstPair(hits)[2]]
             IN  [next_retry |-> t + timedelta_minutes(slot.retry_interval_minutes),
                  rule |-> slot]
        ELSE [next_retry |-> t + timedelta_minutes(config.defaults.retry_interval_minutes),
              rule |-> NoSlot]

\* ------------------- scheduler.RetryScheduler.get_retry_rules_for_campaign
\* every rule is flattened into one row for each of its days and time slots
RECURSIVE slot_rows(_, _, _)
slot_rows(day, time_slots, campaign_id) ==
    IF time_slots = <<>> THEN <<>>
    ELSE <<[day |-> day,
            start_time |-> Head(time_slots).start_time,
            end_time |-> Head(time_slots).end_time,
            max_attempts |-> Head(time_slots).max_attempts,
            retry_interval_minutes |-> Head(time_slots).retry_interval_minutes,
            campaign_id |-> campaign_id]>>
         \o slot_rows(day, Tail(time_slots), campaign_id)

RECURSIVE day_rows(_, _, _)
day_rows(days, time_slots, campaign_id) ==
    IF days = <<>> THEN <<>>
    ELSE slot_rows(Head(days), time_slots, campaign_id)
         \o day_rows(Tail(days), time_slots, campaign_id)

RECURSIVE rule_rows(_, _)
rule_rows(rules, campaign_id) ==
    IF rules = <<>> THEN <<>>
    ELSE day_rows(Head(rules).days, Head(rules).time_slots, campaign_id)
         \o rule_rows(Tail(rules), campaign_id)

RECURSIVE campaign_rows(_, _)
campaign_rows(campaign_rules, campaign_id) ==
    IF campaign_rules = <<>> THEN <<>>
    ELSE (IF Head(campaign_rules).campaign_id = campaign_id
          THEN rule_rows(Head(campaign_rules).rules, campaign_id)
          ELSE <<>>)
         \o campaign_rows(Tail(campaign_rules), campaign_id)

\* the global rows first, the rows of the campaign appended to them
RetryScheduler_get_retry_rules_for_campaign(config, campaign_id) ==
    rule_rows(config.global_rules, 0)
    \o campaign_rows(config.campaign_rules, campaign_id)

\* ----------------------------- scheduler.RetryScheduler.is_in_retry_window
RetryScheduler_is_in_retry_window(t, rules) ==
    LET hits == {i \in DOMAIN rules :
                   /\ rules[i].day = weekday(t)
                   /\ rules[i].start_time <= strftime_HM(t)
                   /\ strftime_HM(t) <= rules[i].end_time}
    IN  IF hits # {}
        THEN [in_window |-> TRUE, rule |-> rules[CHOOSE i \in hits : \A j \in hits : i <= j]]
        ELSE [in_window |-> FALSE, rule |-> NoSlot]

\* ----------------------- scheduler.RetryScheduler.calculate_next_retry_time
\* check_date.replace(hour, minute, second=0): the start of the row's window
\* on the day days_ahead after t
retry_time_of(t, days_ahead, rule) ==
    t + timedelta_days(days_ahead) - time_of(t) + strptime_HM(rule.start_time)

RetryScheduler_calculate_next_retry_time(t, rules, config) ==
    LET hits == {p \in (0 .. LookAheadDays - 1) \X (DOMAIN rules) :
                   /\ rules[p[2]].day = weekday(t + timedelta_days(p[1]))
                   /\ ~(p[1] = 0 /\ retry_time_of(t, p[1], rules[p[2]]) <= t)}
    IN  IF hits # {}
        THEN LET p == FirstPair(hits)
             IN  [next_retry |-> retry_time_of(t, p[1], rules[p[2]]), rule |-> rules[p[2]]]
        ELSE [next_retry |-> t + timedelta_minutes(config.defaults.retry_interval_minutes),
              rule |-> NoSlot]

\* ------------------------------------------------ the tickers' schedule step
\* the windows a list of rules stands for: one for each rule, day and slot
Window(day, slot) ==
    [day |-> day, start_time |-> slot.start_time, end_time |-> slot.end_time,
     max_attempts |-> slot.max_attempts,
     retry_interval_minutes |-> slot.retry_interval_minutes]
windows_of(retry_rules) ==
    UNION {{Window(d, s) : d \in Range(retry_rules[i].days),
                           s \in Range(retry_rules[i].time_slots)} :
           i \in DOMAIN retry_rules}
windows_of_rows(rows) == {Window(r.day, r) : r \in Range(rows)}

Answer(by, campaign_id, windows, window, next) ==
    [by |-> by, campaign_id |-> campaign_id, at |-> now, rules |-> windows,
     in_window |-> window.in_window, next_retry |-> next.next_retry]

\* periodic_tasks.process_retry_calls, for a call of the campaign: the rules
\* are config.get('global_rules', [])
periodic_tasks_schedule(campaign_id) ==
    LET retry_rules == retry_config.global_rules
    IN  /\ retry_answer' = Answer("periodic_tasks", campaign_id, windows_of(retry_rules),
                                  is_in_retry_window(now, retry_rules),
                                  calculate_next_retry_time(now, retry_rules, retry_config))
        /\ UNCHANGED <<call_vars, Campaign, rejected, now, retry_config, queue_vars, delivery, record_vars, tick_vars>>

\* celery_tasks.process_retry_calls, for a call of the campaign
celery_tasks_schedule(campaign_id) ==
    LET retry_rules == get_retry_rules_for_campaign(campaign_id, retry_config)
    IN  /\ retry_answer' = Answer("celery_tasks", campaign_id, windows_of(retry_rules),
                                  is_in_retry_window(now, retry_rules),
                                  calculate_next_retry_time(now, retry_rules, retry_config))
        /\ UNCHANGED <<call_vars, Campaign, rejected, now, retry_config, queue_vars, delivery, record_vars, tick_vars>>

\* scheduler.RetryScheduler.retry_failed_calls, for a call of the campaign
RetryScheduler_schedule(campaign_id) ==
    LET retry_rules == RetryScheduler_get_retry_rules_for_campaign(retry_config, campaign_id)
    IN  /\ retry_answer' = Answer("scheduler", campaign_id, windows_of_rows(retry_rules),
                                  RetryScheduler_is_in_retry_window(now, retry_rules),
                                  RetryScheduler_calculate_next_retry_time(
                                      now, retry_rules, retry_config))
        /\ UNCHANGED <<call_vars, Campaign, rejected, now, retry_config, queue_vars, delivery, record_vars, tick_vars>>

\* any instant of the first days, any configuration, no call yet
ScheduleInit ==
    /\ counter = 0
    /\ lock = [n \in Numbers |-> NoCall]
    /\ ConcurrencyControl = [c \in CallIds |-> NoNumber]
    /\ CallLog = [c \in CallIds |-> NoRow]
    /\ DLQEntry = {}
    /\ tasks = {}
    /\ queue = <<>>
    /\ checked = [n \in Numbers |-> 0]
    /\ provider = [c \in CallIds |-> "idle"]
    /\ events = 0
    /\ Campaign = [c \in {TheCampaign} |-> TRUE]
    /\ rejected = NoRejection
    /\ now \in Instants
    /\ retry_config \in RetryConfigs
    /\ retry_answer = NoAnswer
    /\ call_queue = [c \in CampaignIds |-> <<>>]
    /\ popped = [c \in CampaignIds |-> <<>>]
    /\ delivery = NoDelivery
    /\ total_call_time = [c \in CallIds |-> NoTime]
    /\ last_attempt_at = [c \in CallIds |-> NoTime]
    /\ selected = [k \in Ticks |-> NoSelection]

ScheduleNext ==
    \/ \E cid \in CampaignIds : periodic_tasks_schedule(cid)
    \/ \E cid \in CampaignIds : celery_tasks_schedule(cid)
    \/ \E cid \in CampaignIds : RetryScheduler_schedule(cid)

ScheduleSpec == ScheduleInit /\ [][ScheduleNext]_vars

\* ============================================================ pending queue
\* CallQueueManager driven through its interface: add_to_queue with any
\* priority, pop_from_queue with any count
MaxEntries == 3          \* entries ever queued
MaxPriority == 1         \* priorities 0..MaxPriority
MaxCount == 2            \* the count of a pop_from_queue call

PhoneNumberLists == {<<n>> : n \in Numbers} \cup {<<n, m>> : n \in Numbers, m \in Numbers}

\* the entries add_to_queue makes of a list of numbers, each with timezone.now()
RECURSIVE queue_entries(_, _, _, _)
queue_entries(campaign_id, phone_numbers, priority, t) ==
    IF phone_numbers = <<>> THEN <<>>
    ELSE <<[campaign_id |-> campaign_id, phone_number |-> Head(phone_numbers),
            priority |-> priority, queued_at |-> t]>>
         \o queue_entries(campaign_id, Tail(phone_numbers), priority, t + 1)

\* CallQueueManager.add_to_queue: RPUSH of one entry for each number
add_to_queue(campaign_id, phone_numbers, priority) ==
    /\ now + Len(phone_numbers) <= MaxEntries
    /\ call_queue' = [call_queue EXCEPT ![campaign_id] =
                          @ \o queue_entries(campaign_id, phone_numbers, priority, now)]
    /\ now' = now + Len(phone_numbers)
    /\ UNCHANGED <<call_vars, Campaign, rejected, retry_config, retry_answer, popped,
                   delivery, record_vars, tick_vars>>

\* CallQueueManager.pop_from_queue: LPOP count times, until the list is empty
pop_from_queue(campaign_id, count) ==
    LET k == Min(count, Len(call_queue[campaign_id]))
    IN  /\ popped' = [popped EXCEPT ![campaign_id] =
                          @ \o SubSeq(call_queue[campaign_id], 1, k)]
        /\ call_queue' = [call_queue EXCEPT ![campaign_id] =
                              SubSeq(@, k + 1, Len(@))]
        /\ UNCHANGED <<call_vars, Campaign, rejected, schedule_vars, delivery, record_vars, tick_vars>>

QueueNext ==
    \/ \E cid \in CampaignIds, ns \in PhoneNumberLists, p \in 0 .. MaxPriority :
           add_to_queue(cid, ns, p)
    \/ \E cid \in CampaignIds, k \in 1 .. MaxCount : pop_from_queue(cid, k)

QueueSpec == Init /\ [][QueueNext]_vars

\* ================================================ delivery of the callbacks
\* The provider (mock_service) does not call PUT /callback itself: it queues
\* process_external_callback, and the task calls the view.
MockStatuses == {"PICKED", "DISCONNECTED", "RNR"}
\* what a run of the task can meet: the view answers, the API fails with
\* HTTP 500 or 503, or the request does not get through (httpx.RequestError)
Outcomes == {"api", "500", "503", "network"}
RetriableFailures == {"500", "503", "network"}

Delivery(t, response) ==
    [call |-> t.call, status |-> t.status, retries |-> t.retries, response |-> response]

\* mock_service.CallSimulator.send_callback: process_external_callback.delay
send_callback(c, status_val) ==
    /\ provider[c] = "ringing"
    /\ provider' = [provider EXCEPT ![c] = status_val]
    /\ tasks' = tasks \cup {ExternalTask(c, status_val, 0)}
    /\ UNCHANGED <<counter, lock, ConcurrencyControl, CallLog, DLQEntry, queue, checked>>

process_external_callback(t, outcome) ==
    LET c == t.call
        dlq_kwargs == [topic |-> "external_callback", payload |-> c,
                       error_message |-> "error", retry_count |-> t.retries]
    IN  /\ t \in tasks
        /\ t.type = "external_callback"
        /\ \/ \* the view answers 200: the callback is applied and its task queued
              /\ outcome = "api"
              /\ Exists(c)
              /\ CallLog' = [CallLog EXCEPT ![c].status = t.status]
              /\ tasks' = (tasks \ {t}) \cup {CallbackTask(c, t.status)}
              /\ delivery' = Delivery(t, "200")
              /\ UNCHANGED DLQEntry
           \/ \* the view answers 404: not retriable, the task returns
              /\ outcome = "api"
              /\ ~Exists(c)
              /\ tasks' = tasks \ {t}
              /\ delivery' = Delivery(t, "404")
              /\ UNCHANGED <<CallLog, DLQEntry>>
           \/ \* 500, 503: raise self.retry(..) inside the try block; the
              \* message is re-sent, the Retry raised is caught by the
              \* handler of unexpected errors, which writes the DLQ entry
              /\ outcome \in {"500", "503"}
              /\ tasks' = Retry(tasks, t)
              /\ DLQEntry' = DLQEntry_create(DLQEntry, dlq_kwargs)
              /\ delivery' = Delivery(t, outcome)
              /\ UNCHANGED CallLog
           \/ \* httpx.RequestError: DLQ entry before the last retry, self.retry
              /\ outcome = "network"
              /\ tasks' = Retry(tasks, t)
              /\ DLQEntry' = IF t.retries >= TASK_MAX_RETRIES - 1
                             THEN DLQEntry_create(DLQEntry, dlq_kwargs)
                             ELSE DLQEntry
              /\ delivery' = Delivery(t, outcome)
              /\ UNCHANGED CallLog
        /\ UNCHANGED <<counter, lock, ConcurrencyControl, queue, checked, provider, events,
                       Campaign, rejected, schedule_vars, queue_vars, record_vars, tick_vars>>

DeliveryNext ==
    \/ \E n \in Numbers : InitiateCallView_check(n) /\ Environment
    \/ \E n \in Numbers : InitiateCallView_start(n) /\ System
    \/ \E t \in tasks : process_call_initiation(t, TRUE) /\ System
    \/ \E c \in CallIds, s \in MockStatuses : send_callback(c, s) /\ Environment
    \/ \E t \in tasks, o \in Outcomes : process_external_callback(t, o)
    \/ \E t \in tasks : process_callback_event(t) /\ System

DeliverySpec == Init /\ [][DeliveryNext]_vars

\* ================================================ the call path with times
\* The call path once more, with the two time columns of CallLog that no
\* handler reads (total_call_time, last_attempt_at) and the clock `now`.
MaxDuration == 2         \* call_duration of a callback: 1..MaxDuration, or none

CallbackData(c, status_val, call_duration) ==
    [type |-> "callback", call |-> c, status |-> status_val, retries |-> 0,
     call_duration |-> call_duration]

\* a handler that never writes total_call_time
record_call_duration_never(times, c, call_duration) == times

\* if call_duration: call_log.total_call_time = call_duration
record_call_duration(times, c, call_duration) ==
    IF call_duration # NoTime THEN [times EXCEPT ![c] = call_duration] ELSE times

\* CallBackView.put with the data of the request; the provider reports the
\* outcome of a dialled call
CallBackView_put_data(c, status_val, call_duration) ==
    /\ provider[c] = "ringing"
    /\ provider' = [provider EXCEPT ![c] = status_val]
    /\ Exists(c)
    /\ CallLog' = [CallLog EXCEPT ![c].status = status_val]
    /\ total_call_time' = record_call_duration(total_call_time, c, call_duration)
    /\ tasks' = tasks \cup {CallbackData(c, status_val, call_duration)}
    /\ UNCHANGED <<DLQEntry, counter, lock, ConcurrencyControl, queue, checked,
                   Campaign, rejected, schedule_vars, queue_vars, delivery, last_attempt_at, tick_vars>>

\* process_callback_event with the call_duration of its message
process_callback_event_data(t) ==
    /\ process_callback_event(t)
    /\ total_call_time' = record_call_duration(total_call_time, t.call, t.call_duration)
    /\ UNCHANGED <<events, Campaign, rejected, schedule_vars, queue_vars, delivery,
                   last_attempt_at, tick_vars>>

\* time passes until next_retry_at <= now
retry_time_reached_at(c) ==
    /\ retry_time_reached(c)
    /\ Request
    /\ now' = now + 1
    /\ UNCHANGED <<Campaign, rejected, retry_config, retry_answer, queue_vars, delivery,
                   record_vars, tick_vars>>

\* process_retry_calls at the instant now: a re-admission writes
\* call_log.last_attempt_at = now
process_retry_calls_at(c, in_window, current_rule) ==
    /\ process_retry_calls(c, in_window, current_rule)
    /\ last_attempt_at' = IF in_window THEN [last_attempt_at EXCEPT ![c] = now]
                          ELSE last_attempt_at
    /\ UNCHANGED <<Campaign, rejected, schedule_vars, queue_vars, delivery,
                   total_call_time, tick_vars>>

RecordNext ==
    \/ \E n \in Numbers : InitiateCallView_check(n) /\ Environment
    \/ \E n \in Numbers : InitiateCallView_start(n) /\ System
    \/ \E t \in tasks : process_call_initiation(t, TRUE) /\ System
    \/ \E c \in CallIds, s \in CallbackStatuses, d \in 0 .. MaxDuration :
          CallBackView_put_data(c, s, d) /\ Request
    \/ \E t \in tasks : process_callback_event_data(t)
    \/ \E t \in tasks : process_queue_batch(t) /\ System
    \/ \E c \in CallIds : retry_time_reached_at(c)
    \/ \E c \in CallIds, r \in [max_attempts : SlotMaxAttempts] :
          process_retry_calls_at(c, TRUE, r) /\ UNCHANGED events
    \/ \E c \in CallIds : process_retry_calls_at(c, FALSE, NoRule) /\ UNCHANGED events

RecordSpec == Init /\ [][RecordNext]_vars

\* ------------------------------------------------- the retry ticker
\* One call followed through its retries: time passes MaxNow times at most,
\* callbacks and ticks are not counted.
MaxNow == 2

\* no call has been requested
NoRequestYet == FreeIds(CallLog) = MaxCalls /\ \A n \in Numbers : checked[n] = 0

\* time passes until next_retry_at <= now; the clock is kept below MaxNow
next_retry_at_passes(c) ==
    /\ retry_time_reached(c)
    /\ now < MaxNow
    /\ now' = now + 1
    /\ UNCHANGED <<events, Campaign, rejected, retry_config, retry_answer, queue_vars,
                   delivery, record_vars, tick_vars>>

TickNext ==
    \/ \E n \in Numbers : NoRequestYet /\ InitiateCallView_check(n) /\ Environment
    \/ \E n \in Numbers : InitiateCallView_start(n) /\ System
    \/ \E t \in tasks : process_call_initiation(t, TRUE) /\ System
    \/ \E c \in CallIds, s \in CallbackStatuses, d \in 0 .. MaxDuration :
          CallBackView_put_data(c, s, d) /\ UNCHANGED events
    \/ \E t \in tasks : process_callback_event_data(t)
    \/ \E t \in tasks : process_queue_batch(t) /\ System
    \/ \E c \in CallIds : next_retry_at_passes(c)
    \/ \E c \in CallIds, r \in [max_attempts : SlotMaxAttempts] :
          process_retry_calls_at(c, TRUE, r) /\ UNCHANGED events
    \/ \E c \in CallIds : process_retry_calls_at(c, FALSE, NoRule) /\ UNCHANGED events
    \/ \E n \in Numbers : lock_ttl_expires(n) /\ Environment

TickSpec == Init /\ [][TickNext]_vars

\* ------------------------------------------------- the queue processor
\* process_queue_batch with the entries its pop_from_queue returns recorded
\* in popped (the pending queue of the call model holds the numbers only;
\* priority and queued_at are the defaults and are not read by the run)
process_queue_batch_pop(t) ==
    LET available_slots == get_available_slots(counter)
        batch_size == Min(available_slots, Len(queue))
        queue_entries_popped ==
            queue_entries(TheCampaign, SubSeq(queue, 1, batch_size), 0, 0)
    IN  /\ process_queue_batch(t)
        /\ popped' = [popped EXCEPT ![TheCampaign] = @ \o queue_entries_popped]
        /\ UNCHANGED <<events, Campaign, rejected, schedule_vars, call_queue, delivery,
                       record_vars, tick_vars>>

QueueRunNext ==
    \/ \E n \in Numbers : InitiateCallView_check(n) /\ Environment
    \/ \E n \in Numbers : InitiateCallView_start(n) /\ System
    \/ \E q \in NumberLists : BulkInitiateCallView_post(q) /\ Environment
    \/ \E t \in tasks : process_call_initiation(t, TRUE) /\ System
    \/ \E c \in CallIds, s \in CallbackStatuses : provider_callback(c, s) /\ System
    \/ \E t \in tasks : process_callback_event(t) /\ System
    \/ \E t \in tasks : process_queue_batch_pop(t)
    \/ process_call_queues /\ System

QueueRunSpec == Init /\ [][QueueRunNext]_vars

\* ------------------------------------------------- overlapping retry ticks
\* process_retry_calls (periodic_tasks, celery_tasks) and
\* RetryScheduler.retry_failed_calls share their loop.  A run reads the
\* eligible records into memory, asks can_initiate_call for a record later,
\* and writes later still; nothing locks the record in between.  The loop of
\* tick k for one record, in the three steps other runs can come between.

\* the filter of the run selects call c; the run keeps the row it read
tick_select(k, c) ==
    /\ selected[k] = NoSelection
    /\ CallLog[c].status \in {"DISCONNECTED", "RNR"}
    /\ CallLog[c].next_retry_at = "due"
    /\ CallLog[c].attempt_count < MAX_RETRY_ATTEMPTS
    /\ selected' = [selected EXCEPT ![k] = [call |-> c, row |-> CallLog[c],
                                            admitted |-> FALSE]]
    /\ UNCHANGED <<call_vars, Campaign, rejected, schedule_vars, queue_vars, delivery,
                   record_vars>>

\* inside a window: can_initiate_call; a refused record is left alone
tick_check(k) ==
    LET sel == selected[k]
    IN  /\ sel.call # NoCall
        /\ ~sel.admitted
        /\ selected' = [selected EXCEPT ![k] =
                           IF can_initiate_call(counter, lock, sel.row.phone_number) = "OK"
                           THEN [sel EXCEPT !.admitted = TRUE] ELSE NoSelection]
        /\ UNCHANGED <<call_vars, Campaign, rejected, schedule_vars, queue_vars, delivery,
                       record_vars>>

\* if can_retry: the row held in memory is changed and saved, start_call is
\* called and its result not looked at, the initiate task is queued
tick_readmit(k, current_rule) ==
    LET sel == selected[k]
        c == sel.call
        t == start_call(Tracking, c, sel.row.phone_number)
    IN  /\ sel.admitted
        /\ counter < MaxCounter
        /\ CallLog' = [CallLog EXCEPT ![c] =
                          [sel.row EXCEPT !.attempt_count = @ + 1,
                                          !.status = "RETRYING",
                                          !.next_retry_at = "future",
                                          !.max_attempts = current_rule.max_attempts]]
        /\ last_attempt_at' = [last_attempt_at EXCEPT ![c] = now]
        /\ counter' = t.counter
        /\ lock' = t.lock
        /\ ConcurrencyControl' = t.cc
        /\ tasks' = tasks \cup {InitiateTask(c, 0)}
        /\ selected' = [selected EXCEPT ![k] = NoSelection]
        /\ UNCHANGED <<DLQEntry, queue, checked, provider, events, Campaign, rejected,
                       schedule_vars, queue_vars, delivery, total_call_time>>

\* outside every window: next_retry_at of the row held in memory is moved
\* and the row saved
tick_outside(k) ==
    LET sel == selected[k]
        c == sel.call
    IN  /\ c # NoCall
        /\ ~sel.admitted
        /\ CallLog' = [CallLog EXCEPT ![c] = [sel.row EXCEPT !.next_retry_at = "future"]]
        /\ selected' = [selected EXCEPT ![k] = NoSelection]
        /\ UNCHANGED <<DLQEntry, counter, lock, ConcurrencyControl, tasks, queue, checked,
                       provider, events, Campaign, rejected, schedule_vars, queue_vars,
                       delivery, record_vars>>

OverlapNext ==
    \/ \E n \in Numbers : NoRequestYet /\ InitiateCallView_check(n) /\ Environment
    \/ \E n \in Numbers : InitiateCallView_start(n) /\ System
    \/ \E t \in tasks : process_call_initiation(t, TRUE) /\ System
    \/ \E c \in CallIds, s \in CallbackStatuses : provider_callback(c, s) /\ System
    \/ \E t \in tasks : process_callback_event(t) /\ System
    \/ \E c \in CallIds : retry_time_reached(c) /\ Environment
    \/ \E k \in Ticks, c \in CallIds : tick_select(k, c)
    \/ \E k \in Ticks : tick_check(k)
    \/ \E k \in Ticks, r \in [max_attempts : SlotMaxAttempts] : tick_readmit(k, r)
    \/ \E k \in Ticks : tick_outside(k)

OverlapSpec == Init /\ [][OverlapNext]_vars

\* ============================================================ properties
SlotHoldings == {c \in CallIds : ConcurrencyControl[c] # NoNumber}
\* no task of call c waits for a worker
Quiescent(c) == \A t \in tasks : t.call # c
\* a step of the callback path of call c: the PUT view or the worker task
CallbackStep(c) ==
    \/ \E s \in CallbackStatuses : provider_callback(c, s)
    \/ provider_replay(c)
    \/ \E t \in tasks : t.call = c /\ process_callback_event(t)

\* C1: in every reachable state the in-flight counter is at most
\* MAX_CONCURRENT_CALLS, whatever the interleaving of single and bulk
\* initiations, queue runs, admissions of deflected calls and re-admissions
\* by the retry tick.
C1_CounterWithinCap == counter <= MAX_CONCURRENT_CALLS

\* C2: the counter equals the number of ConcurrencyControl rows whenever no
\* start_call or end_call is in progress (every state: both are one step).
C2_CounterEqualsHoldings == counter = Cardinality(SlotHoldings)

\* a lock that exists names a call that holds a ConcurrencyControl row for
\* the number
LockNamesHolder ==
    \A n \in Numbers : lock[n] # NoCall => ConcurrencyControl[lock[n]] = n
\* the lock of a call that keeps its row disappears only by its timeout
ForeignLockKept ==
    \A n \in Numbers :
        (/\ lock[n] # NoCall
         /\ ConcurrencyControl[lock[n]] = n
         /\ lock'[n] = NoCall
         /\ ConcurrencyControl'[lock[n]] = n) => lock_ttl_expires(n)

\* C3: a number has at most one lock (lock is a function of the number); a
\* lock that exists names a call that holds a ConcurrencyControl row for that
\* number; and only the expiry of its TTL removes the lock of a call that
\* still holds its row afterwards, never the end_call of another call.
C3_LockDiscipline == []LockNamesHolder /\ [][ForeignLockKept]_vars

\* C4: of the initiation requests that run concurrently for one number at
\* most one is admitted: a request never starts tracking for a number for
\* which another call holds a slot.
C4_OneAdmissionPerNumber ==
    [][\A n \in Numbers :
          InitiateCallView_start(n) => \A c \in CallIds : ConcurrencyControl[c] # n]_vars

\* C5: start_call returns false when the counter is at the cap or the number
\* is locked, and a start_call that returns false leaves counter, locks and
\* ConcurrencyControl as they were.
C5_StartCallRefusesAndRollsBack ==
    \A c \in CallIds, n \in Numbers :
        LET r == start_call(Tracking, c, n)
        IN  /\ (counter >= MAX_CONCURRENT_CALLS \/ lock[n] # NoCall) => ~r.ok
            /\ ~r.ok => /\ r.counter = counter
                        /\ r.lock = lock
                        /\ r.cc = ConcurrencyControl

\* C6: end_call applied twice to the same (call_id, number) leaves the same
\* counter, locks and ConcurrencyControl rows as applied once.
C6_EndCallIdempotent ==
    \A c \in CallIds, n \in Numbers :
        LET once == end_call(Tracking, c, n)
            twice == end_call(once, c, n)
        IN  /\ twice.counter = once.counter
            /\ twice.lock = once.lock
            /\ twice.cc = once.cc

\* C7: under fair scheduling every CallLog reaches status COMPLETED or FAILED
\* (a status a later callback may overwrite, so: has it again and again),
\* leaving aside the runs cut short by the bound on the environment's steps,
\* in which time no longer passes.
C7_EveryCallTerminates ==
    \A c \in CallIds :
        []<>(Exists(c) => CallLog[c].status \in Terminal \/ events = MaxEvents)

\* C8: attempt_count never exceeds max_attempts, in particular after the
\* retry tick has incremented the one and overwritten the other.
C8_AttemptsWithinMax ==
    \A c \in CallIds : CallLog[c].attempt_count <= CallLog[c].max_attempts

\* C9: once a call is COMPLETED or FAILED, neither the callback view nor
\* process_callback_event changes its status.
C9_TerminalStatusKept ==
    [][\A c \in CallIds :
          (CallLog[c].status \in Terminal /\ CallbackStep(c))
              => CallLog'[c].status = CallLog[c].status]_vars

\* C10: a call that is COMPLETED, FAILED, or DISCONNECTED / RNR and waiting
\* for its retry, with no task of its own pending, holds no
\* ConcurrencyControl row and no duplicate lock.
C10_SlotReleased ==
    \A c \in CallIds :
        (CallLog[c].status \in {"COMPLETED", "FAILED", "DISCONNECTED", "RNR"}
         /\ Quiescent(c))
            => /\ ConcurrencyControl[c] = NoNumber
               /\ \A n \in Numbers : lock[n] # c

\* at capacity the answer is CAPACITY_LIMIT_REACHED whatever the number
AtCapacityAlwaysDeflects ==
    counter >= MAX_CONCURRENT_CALLS =>
        \A n \in Numbers :
            can_initiate_call(counter, lock, n) = "CAPACITY_LIMIT_REACHED"
\* a request handled at capacity records a new INITIATED call for its number
\* and queues its initiate task; counter, locks and rows stay
DeflectedRequestKeepsTracking ==
    \A n \in Numbers :
        (counter >= MAX_CONCURRENT_CALLS /\ InitiateCallView_check(n)) =>
            LET c == generate_call_id(CallLog)
            IN  /\ CallLog[c].status = "NONE"
                /\ CallLog'[c].status = "INITIATED"
                /\ CallLog'[c].phone_number = n
                /\ CallLog'[c].attempt_count = 1
                /\ InitiateTask(c, 0) \in tasks'
                /\ counter' = counter
                /\ lock' = lock
                /\ ConcurrencyControl' = ConcurrencyControl

\* C11: with the counter at or above MAX_CONCURRENT_CALLS can_initiate_call
\* answers CAPACITY_LIMIT_REACHED for every number, locked or not, and the
\* initiate view then creates a new CallLog in INITIATED without changing
\* the counter, the locks or the ConcurrencyControl rows.
C11_CapacityDeflection ==
    []AtCapacityAlwaysDeflects /\ [][DeflectedRequestKeepsTracking]_vars

\* a call deflected at capacity for a number that is locked: recorded, its
\* first initiate task queued, no row of its own
C11_DeflectedWhileLocked ==
    \E c \in CallIds :
        /\ CallLog[c].status = "INITIATED"
        /\ ConcurrencyControl[c] = NoNumber
        /\ InitiateTask(c, 0) \in tasks
        /\ counter >= MAX_CONCURRENT_CALLS
        /\ lock[CallLog[c].phone_number] # NoCall

\* call c is in flight on number n: it holds a row and is not terminal
InFlightOn(c, n) ==
    ConcurrencyControl[c] = n /\ CallLog[c].status \notin Terminal
\* the step in which process_callback_event makes call c terminal
BecomesTerminalByCallback(c) ==
    /\ CallLog[c].status \notin Terminal
    /\ CallLog'[c].status \in Terminal
    /\ \E t \in tasks : t.call = c /\ process_callback_event(t)

LockedNumberIsDuplicate ==
    \A n \in Numbers :
        (lock[n] # NoCall /\ counter < MAX_CONCURRENT_CALLS)
            => can_initiate_call(counter, lock, n) = "DUPLICATE_CALL_IN_PROGRESS"
\* ... the initiate view then does nothing; and the processing of a PICKED,
\* DISCONNECTED or RNR callback of a call to n leaves n unlocked
LockedRequestRejected ==
    \A n \in Numbers :
        /\ (lock[n] # NoCall /\ counter < MAX_CONCURRENT_CALLS)
              => ~InitiateCallView_check(n)
        /\ \A t \in tasks :
              (/\ process_callback_event(t)
               /\ t.status \in {"PICKED", "DISCONNECTED", "RNR"}
               /\ CallLog[t.call].phone_number = n)
                  => /\ lock'[n] = NoCall
                     /\ counter' < MAX_CONCURRENT_CALLS
                           => can_initiate_call(counter', lock', n) = "OK"

Admits(c, n) == ConcurrencyControl[c] # n /\ ConcurrencyControl'[c] = n

Dialed(c) == provider[c] # "idle"

\* C14: a call recorded by the initiate view at capacity is eventually
\* admitted and dialled once capacity and its number are free: under fair
\* scheduling it does not stay undialled for ever while slots are free
\* (leaving aside the runs cut short by the bound on the environment's
\* steps).
C14_DeflectedEventuallyDialed ==
    \A c \in CallIds :
        []<>(Exists(c) =>
                \/ Dialed(c)
                \/ counter >= MAX_CONCURRENT_CALLS
                \/ lock[CallLog[c].phone_number] # NoCall
                \/ events = MaxEvents)

\* The queue_info part of the 201 response of BulkInitiateCallView.post:
\* len(call_ids), queued_count and the queue size read after the push
bulk_response(phone_numbers) ==
    LET available_slots == get_available_slots(counter)
        immediate_count == Min(available_slots, Len(phone_numbers))
        queued_numbers == SubSeq(phone_numbers, immediate_count + 1, Len(phone_numbers))
        st == admit(SubSeq(phone_numbers, 1, immediate_count), LoopState)
    IN  [immediate_processed |-> st.processed,
         queued_for_later |-> Len(queued_numbers),
         failed |-> st.failed,
         total_in_queue |-> Len(queue')]

\* the calls a step creates with a slot and an initiate task
StartedBy == {c \in CallIds : /\ CallLog[c].status = "NONE"
                              /\ CallLog'[c].status = "INITIATED"
                              /\ ConcurrencyControl'[c] = CallLog'[c].phone_number
                              /\ InitiateTask(c, 0) \in tasks'}

\* C15: a bulk request of n distinct unlocked numbers with a = MAX - counter
\* free slots starts exactly min(a, n) calls at once, appends the other
\* n - min(a, n) numbers to the pending queue in order, and reports these two
\* counts and the queue size after the push.
C15_BulkSplit ==
    [][\A q \in NumberLists :
         (/\ counter <= MAX_CONCURRENT_CALLS
          /\ \A i \in DOMAIN q : lock[q[i]] = NoCall
          /\ BulkInitiateCallView_post(q))
         => LET a == MAX_CONCURRENT_CALLS - counter
                n == Len(q)
                m == IF a < n THEN a ELSE n
                r == bulk_response(q)
            IN  /\ Cardinality(StartedBy) = m
                /\ counter' = counter + m
                /\ \A i \in 1..m : \E c \in StartedBy : CallLog'[c].phone_number = q[i]
                /\ queue' = queue \o SubSeq(q, m + 1, n)
                /\ r.immediate_processed = m
                /\ r.queued_for_later = n - m
                /\ r.failed = 0
                /\ r.total_in_queue = Len(queue) + (n - m)
                /\ r.total_in_queue = Len(queue')]_vars

\* a bulk request of two numbers met one free slot: one call started, one
\* number queued and the queue processor triggered
C15_SplitHappened ==
    /\ counter = MAX_CONCURRENT_CALLS
    /\ Len(queue) = 1
    /\ QueueTask \in tasks
    /\ \E c \in CallIds : /\ CallLog[c].status = "INITIATED"
                          /\ ConcurrencyControl[c] = CallLog[c].phone_number
                          /\ CallLog[c].phone_number # queue[1]
                          /\ InitiateTask(c, 0) \in tasks
    /\ Cardinality({c \in CallIds : ConcurrencyControl[c] # NoNumber}) = MAX_CONCURRENT_CALLS

\* C16: under fair scheduling of process_queue_batch and of the
\* process_call_queues tick the pending queue drains whenever capacity keeps
\* becoming free: it is empty again and again unless the counter stays at
\* the cap; every queued number is popped, then admitted or dropped as a
\* duplicate.
C16_QueueDrains ==
    []<>(queue = <<>> \/ counter >= MAX_CONCURRENT_CALLS
         \/ FreeIds(CallLog) < Len(queue))

\* a number queued by a bulk request behind call 1 was admitted from the
\* queue as call 3 after call 2 ended
C16_QueuedNumberAdmitted ==
    /\ events = 2
    /\ queue = <<>>
    /\ CallLog[1].status = "INITIATED" /\ ConcurrencyControl[1] # NoNumber
    /\ CallLog[2].status \in Terminal
    /\ CallLog[3].status = "INITIATED"
    /\ ConcurrencyControl[3] = CallLog[3].phone_number

\* a worker run of the initiate task of call c in which the provider call
\* fails
ProviderFails(c) ==
    \E t \in tasks : t.call = c /\ process_call_initiation(t, FALSE)

\* C17: when the provider call of process_call_initiation fails, the CallLog
\* becomes FAILED with an error message and tracking is ended: the
\* ConcurrencyControl row and the lock of the number are gone and the
\* counter is one below what it was with the call tracked.
C17_ProviderFailureMarksFailed ==
    [][\A c \in CallIds :
         ProviderFails(c)
         => LET n == CallLog[c].phone_number
                held == IF ConcurrencyControl[c] # NoNumber THEN counter ELSE counter + 1
            IN  /\ CallLog'[c].status = "FAILED"
                /\ CallLog'[c].error_message # "none"
                /\ ConcurrencyControl'[c] = NoNumber
                /\ lock'[n] = NoCall
                /\ counter' = held - 1]_vars

\* a worker run of initiate task t that ends in the except handler: the call
\* is still refused admission or the provider call fails
FailedRun(t) ==
    /\ t.type = "initiate"
    /\ \/ process_call_initiation(t, FALSE)
       \/ /\ ConcurrencyControl[t.call] = NoNumber
          /\ can_initiate_call(counter, lock, CallLog[t.call].phone_number) # "OK"
          /\ process_call_initiation(t, TRUE)

\* a failed run of the initiate task of call c with its retries used up
\* (request.retries = max_retries): self.retry gives the task up
GivesUp(c) ==
    \E t \in tasks : t.call = c /\ t.retries = TASK_MAX_RETRIES /\ FailedRun(t)

\* C18: when the initiate task of a call fails for good (retries used up),
\* the slot is released and afterwards the CallLog is FAILED and the call
\* holds no slot: no ConcurrencyControl row and no lock in its name.
C18_GivenUpCallFailedAndReleased ==
    [][\A c \in CallIds :
         GivesUp(c)
         => /\ CallLog'[c].status = "FAILED"
            /\ ConcurrencyControl'[c] = NoNumber
            /\ lock'[CallLog[c].phone_number] # c]_vars

\* C19: an initiate task whose every attempt fails leaves exactly one
\* DLQEntry with topic call_initiation, written (successfully) by the final
\* failure; the earlier failed attempts write none.
C19_OneDlqEntryOnFinalFailure ==
    [][\A c \in CallIds :
         /\ (\E t \in tasks : t.call = c /\ t.retries < TASK_MAX_RETRIES /\ FailedRun(t))
            => DLQEntry' = DLQEntry
         /\ GivesUp(c)
            => \E e \in DLQEntry' \ DLQEntry :
                  /\ DLQEntry' = DLQEntry \cup {e}
                  /\ e.topic = "call_initiation"
                  /\ e.payload = c]_vars

\* the worker processes a DISCONNECTED or RNR callback of call c while
\* attempt_count >= max_attempts
ExhaustedByCallback(c) ==
    \E t \in tasks :
        /\ t.call = c
        /\ t.type = "callback"
        /\ t.status \in {"DISCONNECTED", "RNR"}
        /\ CallLog[c].attempt_count >= CallLog[c].max_attempts
        /\ process_callback_event(t)

\* what the claim asks of such a step: FAILED with the max-retries message,
\* tracking ended, no retry scheduled
FailsAndReleases(c) ==
    LET n == CallLog[c].phone_number
    IN  /\ CallLog'[c].status = "FAILED"
        /\ CallLog'[c].error_message = "max_retries"
        /\ ConcurrencyControl'[c] = NoNumber
        /\ lock'[n] = NoCall
        /\ counter' = (IF counter > 0 THEN counter - 1 ELSE 0)
        /\ CallLog'[c].next_retry_at = CallLog[c].next_retry_at
        /\ CallLog'[c].attempt_count = CallLog[c].attempt_count
        /\ \A u \in tasks' : u.call = c /\ u.type = "initiate" => u \in tasks

\* C20: a DISCONNECTED/RNR callback processed while attempt_count >=
\* max_attempts sets FAILED with the max-retries message, ends tracking and
\* schedules no retry; with MAX_RETRY_ATTEMPTS = 3 this happens after exactly
\* three dials and the message names 3.
C20_ExhaustedAfterThreeDials ==
    [][\A c \in CallIds :
         ExhaustedByCallback(c)
         => /\ FailsAndReleases(c)
            /\ CallLog[c].attempt_count = 3
            /\ CallLog[c].max_attempts = 3]_vars

\* C20 (amended): a DISCONNECTED/RNR callback processed while attempt_count
\* >= max_attempts sets FAILED with the max-retries message, ends tracking
\* and schedules no retry; the message names max_attempts, and when that is
\* MAX_RETRY_ATTEMPTS (no retry ran in a slot declaring another value) the
\* call is in attempt number MAX_RETRY_ATTEMPTS.
C20_ExhaustedCallbackFails ==
    [][\A c \in CallIds :
         ExhaustedByCallback(c)
         => /\ FailsAndReleases(c)
            /\ CallLog[c].max_attempts = MAX_RETRY_ATTEMPTS
               => CallLog[c].attempt_count = MAX_RETRY_ATTEMPTS]_vars

\* a call failed by its third DISCONNECTED callback: three attempts, slot,
\* lock and callback task gone
C20_FailedAfterThirdDisconnect ==
    \E c \in CallIds :
        /\ CallLog[c].status = "FAILED"
        /\ CallLog[c].error_message = "max_retries"
        /\ CallLog[c].attempt_count = MAX_RETRY_ATTEMPTS
        /\ CallLog[c].max_attempts = MAX_RETRY_ATTEMPTS
        /\ provider[c] = "DISCONNECTED"
        /\ ConcurrencyControl[c] = NoNumber
        /\ lock[CallLog[c].phone_number] = NoCall
        /\ Quiescent(c)

\* C21: PUT /callback with a status outside PICKED, DISCONNECTED, RNR, FAILED
\* is answered 400 and with an unknown call_id 404 (the status is checked
\* first); in both cases no CallLog, counter, lock, tracking row, DLQ entry,
\* task or queue entry changes.
C21_BadCallbackRejected ==
    [][\A c \in CallIds, s \in {"PICKED", "DISCONNECTED", "RNR", "FAILED", "INVALID_STATUS"} :
         (/\ CallBackView_request(c, s)
          /\ s = "INVALID_STATUS" \/ CallLog[c].status = "NONE")
         => /\ rejected' = [by |-> "callback",
                            code |-> IF s = "INVALID_STATUS" THEN "400" ELSE "404"]
            /\ UNCHANGED <<counter, lock, ConcurrencyControl, CallLog, DLQEntry, tasks,
                           queue, checked, provider, Campaign>>]_vars

\* a callback with an invalid status was refused while a dialled call was
\* waiting for its callback
C21_RefusedWhileRinging ==
    /\ rejected = [by |-> "callback", code |-> "400"]
    /\ \E c \in CallIds : Exists(c) /\ provider[c] = "ringing"

\* C22: initiation for a campaign that does not exist or is inactive is
\* refused: POST /initiate-call and POST /bulk-initiate-calls answer 404 and
\* process_queue_batch returns an error; no CallLog is created, no slot or
\* lock is acquired and no queue entry is pushed or popped.
C22_UnknownCampaignRejected ==
    [][/\ \A n \in Numbers, cid \in CampaignIds :
            (InitiateCallView_post(n, cid) /\ (cid # 1 \/ ~Campaign[1]))
            => /\ rejected' = [by |-> "initiate-call", code |-> "404"]
               /\ UNCHANGED <<counter, lock, ConcurrencyControl, CallLog, DLQEntry,
                              tasks, queue, checked, provider>>
       /\ \A q \in NumberLists, cid \in CampaignIds :
            (BulkInitiateCallView_request(q, cid) /\ (cid # 1 \/ ~Campaign[1]))
            => /\ rejected' = [by |-> "bulk-initiate-calls", code |-> "404"]
               /\ UNCHANGED <<counter, lock, ConcurrencyControl, CallLog, DLQEntry,
                              tasks, queue, checked, provider>>
       /\ \A t \in tasks :
            (process_queue_batch_run(t) /\ ~Campaign[1])
            => /\ rejected'.by = "process_queue_batch"
               /\ rejected'.code # "none"
               /\ UNCHANGED <<counter, lock, ConcurrencyControl, CallLog, DLQEntry,
                              queue, checked, provider>>]_vars

\* the queue processor ran for the deactivated campaign and left its queued
\* number in the queue
C22_QueueRunRefused ==
    /\ ~Campaign[TheCampaign]
    /\ rejected.by = "process_queue_batch"
    /\ queue # <<>>
    /\ QueueTask \notin tasks

\* the entry of campaign_rules for a campaign, when there is one
HasCampaignRules(config, campaign_id) ==
    \E i \in DOMAIN config.campaign_rules :
        config.campaign_rules[i].campaign_id = campaign_id
CampaignWindows(config, campaign_id) ==
    UNION {windows_of(config.campaign_rules[i].rules) :
           i \in {j \in DOMAIN config.campaign_rules :
                      config.campaign_rules[j].campaign_id = campaign_id}}

\* C23: a retry ticker that resolves the rules for a call of a campaign uses
\* exactly the campaign's own rules when campaign_rules has an entry for the
\* campaign (no global rule contributes), and exactly the global rules when
\* it has none.
C23_CampaignRulesReplaceGlobal ==
    retry_answer.by # "none" =>
        retry_answer.rules =
            IF HasCampaignRules(retry_config, retry_answer.campaign_id)
            THEN CampaignWindows(retry_config, retry_answer.campaign_id)
            ELSE windows_of(retry_config.global_rules)

\* the next retry instant a ticker computes at instant t for a call of the
\* campaign, under the loaded configuration
next_retry_by(by, campaign_id, t) ==
    CASE by = "periodic_tasks" ->
           calculate_next_retry_time(t, retry_config.global_rules, retry_config).next_retry
      [] by = "celery_tasks" ->
           calculate_next_retry_time(
               t, get_retry_rules_for_campaign(campaign_id, retry_config),
               retry_config).next_retry
      [] by = "scheduler" ->
           RetryScheduler_calculate_next_retry_time(
               t, RetryScheduler_get_retry_rules_for_campaign(retry_config, campaign_id),
               retry_config).next_retry

\* C24: with positive intervals, the next retry instant a ticker computes at
\* instant t is strictly later than t, and the instant computed again from
\* that result is not earlier than the result.
C24_NextRetryAdvances ==
    retry_answer.by # "none" =>
        /\ retry_answer.next_retry > retry_answer.at
        /\ next_retry_by(retry_answer.by, retry_answer.campaign_id,
                         retry_answer.next_retry) >= retry_answer.next_retry

\* a ticker inside a window computed a next retry that crosses midnight
C24_NextRetryPastMidnight ==
    /\ retry_answer.by = "celery_tasks"
    /\ retry_answer.in_window
    /\ weekday(retry_answer.next_retry) # weekday(retry_answer.at)
    /\ next_retry_by(retry_answer.by, retry_answer.campaign_id,
                     retry_answer.next_retry) > retry_answer.next_retry

\* instant t is inside window w: its weekday is the window's and its clock
\* time, cut to the minute, is from start_time to end_time
InsideWindow(t, w) ==
    /\ w.day = weekday(t)
    /\ w.start_time <= strftime_HM(t)
    /\ strftime_HM(t) <= w.end_time

\* C25: whenever the rules a ticker works with have some window, the next
\* retry instant it computes lies inside one of their windows: past the end
\* of the slot, or outside every slot, the result is the start of the next
\* open window of the coming 7 days, and the instant plus the default interval
\* is used only when those days have no window.
C25_NextRetryInsideWindow ==
    (retry_answer.by # "none" /\ retry_answer.rules # {}) =>
        \E w \in retry_answer.rules : InsideWindow(retry_answer.next_retry, w)

\* C26: a ticker finds the instant inside a retry window exactly when one of
\* the rules it works with lists the weekday and the clock time, cut to the
\* minute, is from start_time to end_time, both ends included: every second
\* of the minute end_time is inside.
C26_InWindowToTheMinute ==
    retry_answer.by # "none" =>
        (retry_answer.in_window <=>
            \E w \in retry_answer.rules : InsideWindow(retry_answer.at, w))

\* entry f goes before entry e: higher priority, or the same priority and
\* queued earlier
GoesBefore(f, e) ==
    \/ f.priority > e.priority
    \/ f.priority = e.priority /\ f.queued_at < e.queued_at

\* the entries a step pops from the queue of a campaign
PoppedNow(campaign_id) ==
    SubSeq(popped'[campaign_id], Len(popped[campaign_id]) + 1, Len(popped'[campaign_id]))

\* C27: pop_from_queue returns the entries of a campaign by priority
\* descending and, within a priority, by queued_at ascending: no entry is
\* popped while an entry that goes before it is still waiting in the same
\* queue, and the entries of one pop come out in that order.
C27_PopByPriority ==
    [][\A cid \in CampaignIds :
          LET out == PoppedNow(cid)
          IN  /\ \A i \in DOMAIN out : \A f \in Range(call_queue'[cid]) :
                     ~GoesBefore(f, out[i])
              /\ \A i \in DOMAIN out, j \in DOMAIN out :
                     i < j => ~GoesBefore(out[j], out[i])]_vars

\* every callback task of call c has run
CallbacksApplied(c) == ~\E u \in tasks : u.type = "callback" /\ u.call = c

\* C28: the callbacks of a call take effect in the order they arrived at the
\* view, whatever worker runs their tasks: once every callback task of the
\* call has run, the status is the one the last callback to arrive leaves
\* behind, COMPLETED when that callback reported PICKED.
C28_LastCallbackWins ==
    \A c \in CallIds :
        (provider[c] = "PICKED" /\ CallbacksApplied(c)) =>
            CallLog[c].status = "COMPLETED"

\* the step is a run of the external callback task t that met a retriable
\* failure
RetriableFailure(t) ==
    /\ t \in tasks
    /\ t.type = "external_callback"
    /\ t \notin tasks'
    /\ \E r \in RetriableFailures : delivery' = Delivery(t, r)

C30_OneHoldingPerNumber ==
    \A c \in CallIds, d \in CallIds :
        (c # d /\ ConcurrencyControl[c] # NoNumber) =>
            ConcurrencyControl[d] # ConcurrencyControl[c]

\* the step runs callback task t, of a DISCONNECTED or RNR callback, while
\* the call has attempts left
RetryScheduledByCallback(t) ==
    /\ t.type = "callback"
    /\ t.status \in {"DISCONNECTED", "RNR"}
    /\ CallLog[t.call].attempt_count < CallLog[t.call].max_attempts
    /\ process_callback_event(t)

\* call c waits for the retry ticker: DISCONNECTED or RNR, retry scheduled,
\* every callback task of the call has run
AwaitsRetry(c) ==
    /\ CallLog[c].status \in {"DISCONNECTED", "RNR"}
    /\ CallLog[c].next_retry_at # "none"
    /\ CallbacksApplied(c)

PickedCallbackRun(t) ==
    /\ t.type = "callback"
    /\ t.status = "PICKED"
    /\ ConcurrencyControl[t.call] # NoNumber
    /\ process_callback_event_data(t)

ReleasedByCallback(c) ==
    /\ ConcurrencyControl[c] # NoNumber
    /\ ConcurrencyControl'[c] = NoNumber
    /\ \E t \in tasks : t.type = "callback" /\ t.call = c /\ process_callback_event(t)

\* C33: every transition that releases a slot (PICKED to COMPLETED,
\* DISCONNECTED or RNR with or without attempts left, a FAILED callback, a
\* provider failure of the initiate task) queues a run of process_queue_batch
\* for the campaign, so that the freed slot is offered to the pending queue
\* without waiting for the periodic tick.
C33_ReleaseTriggersQueueRun ==
    [][\A c \in CallIds : ReleasedByCallback(c) => QueueTask \in tasks']_vars

\* a tick re-admits call c
Readmitted(c) ==
    \E r \in [max_attempts : SlotMaxAttempts] : process_retry_calls_at(c, TRUE, r)

\* C34: a retry tick re-admits a call only if it is DISCONNECTED or RNR, its
\* next_retry_at has passed, attempt_count is below MAX_RETRY_ATTEMPTS and
\* the admission check answers OK; the re-admission sets RETRYING, adds
\* exactly 1 to attempt_count, writes last_attempt_at = now, acquires the
\* slot with start_call and queues one initiate task, and the initiate task
\* is queued only if start_call succeeded.
C34_ReadmissionTracked ==
    [][\A c \in CallIds :
          Readmitted(c) =>
             /\ CallLog[c].status \in {"DISCONNECTED", "RNR"}
             /\ CallLog[c].next_retry_at = "due"
             /\ CallLog[c].attempt_count < MAX_RETRY_ATTEMPTS
             /\ can_initiate_call(counter, lock, CallLog[c].phone_number) = "OK"
             /\ CallLog'[c].status = "RETRYING"
             /\ CallLog'[c].attempt_count = CallLog[c].attempt_count + 1
             /\ last_attempt_at'[c] = now
             /\ tasks' = tasks \cup {InitiateTask(c, 0)}
             /\ (InitiateTask(c, 0) \in tasks' =>
                    start_call(Tracking, c, CallLog[c].phone_number).ok)]_vars

\* the admission check refuses the number of call c
AdmissionRefused(c) ==
    /\ Exists(c)
    /\ counter >= MAX_CONCURRENT_CALLS \/ lock[CallLog[c].phone_number] # NoCall

\* C35: a retry tick that does not re-admit a selected call (outside every
\* window, or admission refused for capacity or duplicate) changes nothing of
\* the record except next_retry_at, leaves counter, locks and holdings
\* alone and queues no initiate task.
C35_NotReadmittedFrame ==
    [][\A c \in CallIds :
          /\ process_retry_calls_at(c, FALSE, NoRule) =>
                /\ CallLog' = [CallLog EXCEPT ![c].next_retry_at = CallLog'[c].next_retry_at]
                /\ UNCHANGED <<counter, lock, ConcurrencyControl, tasks, DLQEntry,
                               record_vars>>
          /\ AdmissionRefused(c) => ~Readmitted(c)]_vars

\* a tick outside every window has moved next_retry_at of a call that was due
C35_TickOutsideWindow ==
    \E c \in CallIds :
        /\ CallLog[c].status \in {"DISCONNECTED", "RNR"}
        /\ CallLog[c].next_retry_at = "future"
        /\ CallLog[c].attempt_count = 1
        /\ now = 1
        /\ ConcurrencyControl[c] = NoNumber
        /\ Quiescent(c)

\* what a run of process_queue_batch pops: the first min(available slots,
\* queue size) entries of the pending queue
PoppedByRun ==
    LET free == IF MAX_CONCURRENT_CALLS - counter > 0
                THEN MAX_CONCURRENT_CALLS - counter ELSE 0
    IN  SubSeq(queue, 1, Min(free, Len(queue)))
\* the i-th popped entry meets the duplicate lock of its number: set before
\* the run, or by an earlier entry of the same run
DroppedByRun(i) ==
    \/ lock[PoppedByRun[i]] # NoCall
    \/ \E j \in 1 .. i - 1 : PoppedByRun[j] = PoppedByRun[i]
\* the calls a step creates
CreatedByStep == {c \in CallIds : ~Exists(c) /\ CallLog'[c].status # "NONE"}
\* what a run of process_queue_batch pushes back behind the entries it left
RequeuedByRun ==
    SubSeq(queue', Len(queue) - Len(PoppedByRun) + 1, Len(queue'))

C37_RearmOnlyAfterProgress ==
    [][\A t \in tasks :
          process_queue_batch(t) =>
             /\ (QueueTask \in tasks') <=> (Len(queue') > 0 /\ CreatedByStep # {})
             /\ (QueueTask \in tasks') => Len(queue') < Len(queue)]_vars

\* one run has popped the first of two queued numbers, admitted it as call 3
\* and re-armed itself for the number that is left
C37_RearmedWithOneLeft ==
    /\ Len(popped[TheCampaign]) = 1
    /\ Len(queue) = 1
    /\ QueueTask \in tasks
    /\ CallLog[3].status = "INITIATED"
    /\ CallLog[3].phone_number = popped[TheCampaign][1].phone_number
    /\ ConcurrencyControl[3] = CallLog[3].phone_number
    /\ InitiateTask(3, 0) \in tasks
    /\ queue[1] # CallLog[3].phone_number

\* the filter of cleanup_expired_calls selects call c
SelectedBySweep(c) ==
    /\ CallLog[c].status \in {"DISCONNECTED", "RNR", "RETRYING"}
    /\ CallLog[c].attempt_count >= MAX_RETRY_ATTEMPTS
\* call c has used up its attempts and is neither COMPLETED nor FAILED
ExpiredNonTerminal(c) ==
    /\ Exists(c)
    /\ CallLog[c].status \notin Terminal
    /\ CallLog[c].attempt_count >= MAX_RETRY_ATTEMPTS

\* C38: cleanup_expired_calls moves every record with attempt_count >=
\* MAX_RETRY_ATTEMPTS that is not terminal to FAILED and ends its tracking,
\* and only such records: once the sweep has gone through the records it
\* selects, no record that is not terminal has attempt_count >=
\* MAX_RETRY_ATTEMPTS.
C38_SweepLeavesNoExpired ==
    (\A c \in CallIds : ~SelectedBySweep(c)) => (\A c \in CallIds : ~ExpiredNonTerminal(c))

\* a worker runs an initiate task of call c, whatever the provider answers
InitiateTaskRun(c) ==
    \E t \in tasks : /\ t.call = c
                     /\ \E provider_ok \in BOOLEAN : process_call_initiation(t, provider_ok)

\* C39: an initiate task delivered for a call whose record is already
\* COMPLETED or FAILED has no effect: the record stays as it is, no slot and
\* no duplicate lock is acquired and the provider is not dialled.
C39_InitiateOnTerminalIsNoOp ==
    [][\A c \in CallIds :
          (CallLog[c].status \in Terminal /\ InitiateTaskRun(c)) =>
              /\ CallLog'[c] = CallLog[c]
              /\ UNCHANGED <<counter, lock, ConcurrencyControl, provider>>]_vars

\* C40: when two retry ticks overlap and select the same eligible record,
\* the record is re-admitted at most once: a tick re-admits only a record
\* that is still DISCONNECTED or RNR and holds no slot, and the re-admission
\* raises attempt_count by 1 and the counter by 1 and creates the one
\* ConcurrencyControl row of the call.
C40_OverlapReadmitsOnce ==
    [][\A k \in Ticks, r \in [max_attempts : SlotMaxAttempts] :
          tick_readmit(k, r) =>
             LET c == selected[k].call
             IN  /\ CallLog[c].status \in {"DISCONNECTED", "RNR"}
                 /\ CallLog'[c].attempt_count = CallLog[c].attempt_count + 1
                 /\ counter' = counter + 1
                 /\ ConcurrencyControl[c] = NoNumber
                 /\ ConcurrencyControl'[c] = CallLog[c].phone_number]_vars
====
